---- MODULE Spec2Model ----
(***************************************************************************)
(* Model of usb-hub-control: the Hub library (src/src/lib.rs) and the      *)
(* uhubctrl command line program (src/src/bin/uhubctrl.rs).                *)
(*                                                                         *)
(* A Rust panic (a failed assert!, an unwrap of None/Err, a slice index    *)
(* out of range) aborts the program; it is modelled as the outcome tag     *)
(* "Panic", distinct from a returned Err.                                  *)
(***************************************************************************)
EXTENDS Integers, Sequences, FiniteSets, TLC

VARIABLES
    hub,        \* the Hub object last constructed, or NoHub
    call,       \* the library call last made: [op, port, on]
    result,     \* what that call returned: [tag, err, val]
    xfers,      \* the control transfers that call issued, with their responses
    buf,        \* BOS decoding: the raw buffer handed to from_data
    bos,        \* BOS decoding: outcome of from_data
    cid,        \* BOS decoding: outcome of container_id
    location,   \* location parsing: the --location string (sequence of characters)
    lockey,     \* location parsing: outcome of the parse
    info_map,   \* uhubctrl: the DeviceTree, key -> DeviceInfo
    args,       \* uhubctrl: the parsed command line
    pc,         \* uhubctrl: where main is: "main", "list" or "exit"
    iter,       \* uhubctrl list: position in the iteration over info_map
    stack,      \* uhubctrl list: the active describe_hub calls, innermost last
    events,     \* uhubctrl list: device accesses and pieces of output, in order
    listres,    \* uhubctrl: what list returned
    printed,    \* uhubctrl: whether list printed its buffer to stdout
    exit        \* uhubctrl: the exit status of the process

hubVars == <<hub, call, result, xfers>>
bosVars == <<buf, bos, cid>>
locVars == <<location, lockey>>
cliVars == <<info_map, args, pc, iter, stack, events, listres, printed, exit>>
vars == <<hub, call, result, xfers, buf, bos, cid, location, lockey,
          info_map, args, pc, iter, stack, events, listres, printed, exit>>

(***************************************************************************)
(* Integer helpers: u8/u16 arithmetic as the code computes it.             *)
(***************************************************************************)
RECURSIVE BitAnd(_, _)
BitAnd(a, b) ==
    IF a = 0 \/ b = 0 THEN 0
    ELSE (a % 2) * (b % 2) + 2 * BitAnd(a \div 2, b \div 2)

RECURSIVE BitOr(_, _)
BitOr(a, b) ==
    IF a = 0 THEN b
    ELSE IF b = 0 THEN a
    ELSE (IF a % 2 = 1 \/ b % 2 = 1 THEN 1 ELSE 0) + 2 * BitOr(a \div 2, b \div 2)

\* u16::from_le_bytes([lo, hi])
u16_from_le_bytes(lo, hi) == lo + 256 * hi

\* (x as u16) << 8
Shl8(x) == (x * 256) % 65536

\* s[from..] on a slice, 0-based like the source; requires from <= Len(s)
SliceFrom(s, from) == SubSeq(s, from + 1, Len(s))

\* s[from..to] on a slice, 0-based, end exclusive
Slice(s, from, to) == SubSeq(s, from + 1, to)

\* s[i] on a slice, 0-based
At(s, i) == s[i + 1]

(***************************************************************************)
(* Results.  Ok(v) / Err(e) are returned values; Panic aborts the program. *)
(***************************************************************************)
Ok(v) == [tag |-> "Ok", err |-> "", val |-> v]
Err(e) == [tag |-> "Err", err |-> e, val |-> <<>>]
Panic == [tag |-> "Panic", err |-> "", val |-> <<>>]

None == [some |-> FALSE, id |-> <<>>]
Some(v) == [some |-> TRUE, id |-> v]

(***************************************************************************)
(* Protocol constants.                                                     *)
(***************************************************************************)
USB_VERSION_3_0 == 768
DEVICE_CLASS_HUB == 9
STANDARD_REQUEST_GET_STATUS == 0
STANDARD_REQUEST_CLEAR_FEATURE == 1
STANDARD_REQUEST_SET_FEATURE == 3
STANDARD_REQUEST_GET_DESCRIPTOR == 6
DESCRIPTOR_TYPE_HUB == 41
DESCRIPTOR_TYPE_SUPERSPEED_HUB == 42
DESCRIPTOR_TYPE_BOS == 15
DESCRIPTOR_TYPE_DEVICE_CAPABILITY == 16
USB_PORT_FEATURE_POWER == 8
HUB_CHARACTERISTICS_LPSM_MASK == 3
HUB_CHARACTERISTICS_LPSM_COMMON == 0
HUB_CHARACTERISTICS_LPSM_INDIVIDUAL_PORT == 1
CONNECTION == 1
ENABLE == 2
OVERCURRENT == 8
POWER == 256
SS_POWER == 512
SUPER_SPEED == 32768
BOS_MAX == 256
CAPABILITY_CONTAINER_ID == 4
CONTAINER_ID_LENGTH == 20
BOS_REQUEST_SIZE == 4096

(***************************************************************************)
(* Control transfers.  The request is what the code builds; the response   *)
(* is the transport's answer: ok = FALSE is a transport error (timeout,    *)
(* stall, fault), otherwise data holds the bytes received (control IN).    *)
(***************************************************************************)
Control(dir, control_type, recipient, request, value, index, len) ==
    [dir |-> dir, control_type |-> control_type, recipient |-> recipient,
     request |-> request, value |-> value, index |-> index, len |-> len]

Xfer(ctl, resp) == [ctl |-> ctl, resp |-> resp]

TransportError == [ok |-> FALSE, data |-> <<>>]
Received(data) == [ok |-> TRUE, data |-> data]

(***************************************************************************)
(* HubDescriptor and its logical power switching mode.                     *)
(***************************************************************************)
HubDescriptor(port_count, characteristics) ==
    [port_count |-> port_count, characteristics |-> characteristics]

logical_power_switching_mode(hub_descriptor) ==
    LET lpsm == BitAnd(hub_descriptor.characteristics, HUB_CHARACTERISTICS_LPSM_MASK)
    IN  IF lpsm = HUB_CHARACTERISTICS_LPSM_INDIVIDUAL_PORT THEN "IndividualPort"
        ELSE IF lpsm = HUB_CHARACTERISTICS_LPSM_COMMON THEN "Common"
        ELSE "None"

(***************************************************************************)
(* PortStatus: the raw word, with the hub generation kept in bit 15.       *)
(***************************************************************************)
from_field(value, super_speed) ==
    BitOr(value, IF super_speed THEN SUPER_SPEED ELSE 0)

super_speed(status) == BitAnd(status, SUPER_SPEED) = SUPER_SPEED

connection(status) == BitAnd(status, CONNECTION) = CONNECTION

enabled(status) == BitAnd(status, ENABLE) = ENABLE

overcurrent(status) == BitAnd(status, OVERCURRENT) = OVERCURRENT

powered(status) ==
    IF super_speed(status)
    THEN BitAnd(status, SS_POWER) = SS_POWER
    ELSE BitAnd(status, POWER) = POWER

(***************************************************************************)
(* Hub::get_hub_description.  resp is the transport's answer to the class  *)
(* GET_DESCRIPTOR request.  Returns [res, xfers].                          *)
(***************************************************************************)
hub_request_size(ss) == IF ss THEN 12 ELSE 9

hub_descriptor_type(ss) ==
    IF ss THEN DESCRIPTOR_TYPE_SUPERSPEED_HUB ELSE DESCRIPTOR_TYPE_HUB

\* vec![0; request_size] overwritten by the bytes received
FillBuf(size, data) ==
    [i \in 1..size |-> IF i <= Len(data) THEN data[i] ELSE 0]

\* get_hub_description without the clamp of a port count above 15
get_hub_description_unclamped(ss, resp) ==
    LET request_size == hub_request_size(ss)
        ctl == Control("in", "Class", "Device", STANDARD_REQUEST_GET_DESCRIPTOR,
                       Shl8(hub_descriptor_type(ss)), 0, request_size)
        x == <<Xfer(ctl, resp)>>
        b == FillBuf(request_size, resp.data)
    IN  IF ~resp.ok THEN [res |-> Err("UsbTransferError"), xfers |-> x]
        ELSE IF Len(resp.data) # request_size
        THEN [res |-> Err("InvalidRespone"), xfers |-> x]
        ELSE [res |-> Ok(HubDescriptor(At(b, 2), u16_from_le_bytes(At(b, 3), At(b, 4)))),
              xfers |-> x]

get_hub_description(ss, resp) ==
    LET request_size == hub_request_size(ss)
        ctl == Control("in", "Class", "Device", STANDARD_REQUEST_GET_DESCRIPTOR,
                       Shl8(hub_descriptor_type(ss)), 0, request_size)
        x == <<Xfer(ctl, resp)>>
        b == FillBuf(request_size, resp.data)
    IN  IF ~resp.ok THEN [res |-> Err("UsbTransferError"), xfers |-> x]
        ELSE IF Len(resp.data) # request_size
        THEN [res |-> Err("InvalidRespone"), xfers |-> x]
        ELSE [res |-> Ok(HubDescriptor(IF At(b, 2) <= 15 THEN At(b, 2) ELSE 0,
                                       u16_from_le_bytes(At(b, 3), At(b, 4)))),
              xfers |-> x]

(***************************************************************************)
(* BinaryObjectStoreDescriptor.                                            *)
(***************************************************************************)
\* from_data: four assert!s, then a copy into a BOS_MAX byte array
from_data(data) ==
    IF Len(data) < 5 THEN Panic
    ELSE IF At(data, 0) # 5 THEN Panic
    ELSE IF At(data, 1) # DESCRIPTOR_TYPE_BOS THEN Panic
    ELSE IF u16_from_le_bytes(At(data, 2), At(data, 3)) # Len(data) THEN Panic
    ELSE IF Len(data) > BOS_MAX THEN Panic
    ELSE Ok([data |-> data, length |-> Len(data)])

\* the loop of container_id: part is the unread tail, remaining the
\* iterations left of `for _ in 0..count`
RECURSIVE container_id_walk(_, _, _)
container_id_walk(b, part, remaining) ==
    IF remaining = 0 THEN Ok(None)
    ELSE IF Len(part) < 2 THEN Panic
    ELSE IF At(part, 1) # DESCRIPTOR_TYPE_DEVICE_CAPABILITY THEN Panic
    ELSE IF Len(part) < 3 THEN Panic
    ELSE IF At(part, 2) = CAPABILITY_CONTAINER_ID /\ At(part, 0) = CONTAINER_ID_LENGTH
    THEN IF Len(b) < 20 THEN Panic ELSE Ok(Some(Slice(b, 4, 20)))
    ELSE IF At(part, 0) > Len(part) THEN Panic
    ELSE container_id_walk(b, SliceFrom(part, At(part, 0)), remaining - 1)

container_id(b) ==
    LET bytes == SubSeq(b.data, 1, b.length)
    IN  container_id_walk(bytes, SliceFrom(bytes, 5), At(bytes, 4))

\* Hub::get_bos_description.  Returns [res, xfers].
get_bos_description(resp) ==
    LET ctl == Control("in", "Standard", "Device", STANDARD_REQUEST_GET_DESCRIPTOR,
                       Shl8(DESCRIPTOR_TYPE_BOS), 0, BOS_REQUEST_SIZE)
        x == <<Xfer(ctl, resp)>>
    IN  IF ~resp.ok THEN [res |-> Err("UsbTransferError"), xfers |-> x]
        ELSE IF Len(resp.data) >= 5
        THEN [res |-> from_data(resp.data), xfers |-> x]
        ELSE [res |-> Err("InvalidRespone"), xfers |-> x]

(***************************************************************************)
(* Hub.                                                                    *)
(***************************************************************************)
NoHub == [live |-> FALSE]

Hub(hub_descriptor, ss, container) ==
    [live |-> TRUE, hub_descriptor |-> hub_descriptor, super_speed |-> ss,
     container_id |-> container]

\* Hub::from_device_info.  class, open_ok and usb_version describe the
\* device; hub_resp and bos_resp are the transport's answers to the two
\* descriptor reads.  Returns [res, xfers].
from_device_info(class, open_ok, usb_version, hub_resp, bos_resp) ==
    IF class # DEVICE_CLASS_HUB THEN [res |-> Err("InvalidDeviceClass"), xfers |-> <<>>]
    ELSE IF ~open_ok THEN [res |-> Err("UsbError"), xfers |-> <<>>]
    ELSE
    LET ss == usb_version > USB_VERSION_3_0
        hd == get_hub_description(ss, hub_resp)
    IN  IF hd.res.tag # "Ok" THEN hd
        ELSE
        LET bd == get_bos_description(bos_resp)
            x == hd.xfers \o bd.xfers
            c == IF bd.res.tag = "Ok" THEN container_id(bd.res.val) ELSE Ok(None)
        IN  IF bd.res.tag = "Panic" \/ c.tag = "Panic"
            THEN [res |-> Panic, xfers |-> x]
            ELSE [res |-> Ok(Hub(hd.res.val, ss, c.val)), xfers |-> x]

\* Hub::port_status.  The value of an Ok result is the PortStatus word.
port_status(h, port, resp) ==
    IF port > h.hub_descriptor.port_count
    THEN [res |-> Err("InvalidPort"), xfers |-> <<>>]
    ELSE
    LET ctl == Control("in", "Class", "Other", STANDARD_REQUEST_GET_STATUS, 0, port, 4)
        x == <<Xfer(ctl, resp)>>
    IN  IF ~resp.ok THEN [res |-> Err("UsbTransferError"), xfers |-> x]
        ELSE IF Len(resp.data) = 4
        THEN [res |-> Ok(from_field(u16_from_le_bytes(At(resp.data, 0), At(resp.data, 1)),
                                    h.super_speed)),
              xfers |-> x]
        ELSE [res |-> Err("UsbTransferError"), xfers |-> x]

\* set_port_power without its check of the power switching mode
set_port_power_any_mode(h, port, on, resp) ==
    IF port > h.hub_descriptor.port_count
    THEN [res |-> Err("InvalidPort"), xfers |-> <<>>]
    ELSE
    LET request == IF on THEN STANDARD_REQUEST_SET_FEATURE
                   ELSE STANDARD_REQUEST_CLEAR_FEATURE
        ctl == Control("out", "Class", "Other", request, USB_PORT_FEATURE_POWER, port, 0)
        x == <<Xfer(ctl, resp)>>
    IN  IF ~resp.ok THEN [res |-> Err("UsbTransferError"), xfers |-> x]
        ELSE [res |-> Ok(<<>>), xfers |-> x]

\* set_port_power with the two requests exchanged
set_port_power_requests_swapped(h, port, on, resp) ==
    IF logical_power_switching_mode(h.hub_descriptor) # "IndividualPort"
    THEN [res |-> Err("InvalidPort"), xfers |-> <<>>]
    ELSE IF port > h.hub_descriptor.port_count
    THEN [res |-> Err("InvalidPort"), xfers |-> <<>>]
    ELSE
    LET request == IF on THEN STANDARD_REQUEST_CLEAR_FEATURE
                   ELSE STANDARD_REQUEST_SET_FEATURE
        ctl == Control("out", "Class", "Other", request, USB_PORT_FEATURE_POWER, port, 0)
        x == <<Xfer(ctl, resp)>>
    IN  IF ~resp.ok THEN [res |-> Err("UsbTransferError"), xfers |-> x]
        ELSE [res |-> Ok(<<>>), xfers |-> x]

\* Hub::set_port_power
set_port_power(h, port, on, resp) ==
    IF logical_power_switching_mode(h.hub_descriptor) # "IndividualPort"
    THEN [res |-> Err("InvalidPort"), xfers |-> <<>>]
    ELSE IF port > h.hub_descriptor.port_count
    THEN [res |-> Err("InvalidPort"), xfers |-> <<>>]
    ELSE
    LET request == IF on THEN STANDARD_REQUEST_SET_FEATURE
                   ELSE STANDARD_REQUEST_CLEAR_FEATURE
        ctl == Control("out", "Class", "Other", request, USB_PORT_FEATURE_POWER, port, 0)
        x == <<Xfer(ctl, resp)>>
    IN  IF ~resp.ok THEN [res |-> Err("UsbTransferError"), xfers |-> x]
        ELSE [res |-> Ok(<<>>), xfers |-> x]

(***************************************************************************)
(* What the transport can answer.                                          *)
(***************************************************************************)
DeviceClasses == {0, 8, DEVICE_CLASS_HUB}

\* bcdUSB of the device descriptor: 2.0, 3.0, 3.1
UsbVersions == {512, 768, 784}

HubDescLens == {0, 4, 8, 9, 12}
PortCountBytes == {0, 2, 15, 16, 255}
CharacteristicsLow == {0, 1, 2, 3, 169}
CharacteristicsHigh == {0, 1}

HubDescBytes(n, b2, b3, b4) ==
    SubSeq(<<n, DESCRIPTOR_TYPE_HUB, b2, b3, b4, 0, 0, 0, 0, 0, 0, 0>>, 1, n)

HubDescResponses ==
    {TransportError} \cup
    {Received(HubDescBytes(n, b2, b3, b4)) :
        n \in HubDescLens, b2 \in PortCountBytes,
        b3 \in CharacteristicsLow, b4 \in CharacteristicsHigh}

\* Container IDs used as test data; the last one repeats the bytes that
\* precede the payload of a Container ID record placed first in a BOS
ContainerIds ==
    {[i \in 1..16 |-> 160 + i], [i \in 1..16 |-> 0],
     [i \in 1..16 |-> CASE i % 4 = 1 -> 1 [] i % 4 = 2 -> 20
                        [] i % 4 = 3 -> 16 [] OTHER -> 4]}

\* A Container ID capability record: 3 byte header, the 16 byte id, 1 more
\* byte to make up the record length of 20
ContainerIdRecord(c) ==
    <<CONTAINER_ID_LENGTH, DESCRIPTOR_TYPE_DEVICE_CAPABILITY, CAPABILITY_CONTAINER_ID>>
        \o c \o <<0>>

Usb20ExtensionRecord == <<7, DESCRIPTOR_TYPE_DEVICE_CAPABILITY, 2, 2, 0, 0, 0>>
SuperSpeedRecord == <<10, DESCRIPTOR_TYPE_DEVICE_CAPABILITY, 3, 0, 14, 0, 1, 10, 255, 7>>
\* capability type 4 but not 20 bytes long
ShortContainerRecord == <<7, DESCRIPTOR_TYPE_DEVICE_CAPABILITY, CAPABILITY_CONTAINER_ID, 0, 0, 0, 0>>
\* descriptor type is not "device capability"
BadTypeRecord == <<7, 17, 2, 2, 0, 0, 0>>
\* length field 0
ZeroLengthRecord == <<0, DESCRIPTOR_TYPE_DEVICE_CAPABILITY, 2>>
\* length field runs past the end of the record
OverrunRecord == <<200, DESCRIPTOR_TYPE_DEVICE_CAPABILITY, 2, 0>>

CapabilityRecords ==
    {ContainerIdRecord(c) : c \in ContainerIds} \cup
    {Usb20ExtensionRecord, SuperSpeedRecord, ShortContainerRecord, BadTypeRecord,
     ZeroLengthRecord, OverrunRecord}

RECURSIVE Concat(_)
Concat(ss) == IF ss = <<>> THEN <<>> ELSE Head(ss) \o Concat(Tail(ss))

\* A BOS buffer: 5 byte header, then the records; total is the value of
\* the total_length field, count that of num_device_caps
BosBuffer(b0, b1, total, count, records) ==
    <<b0, b1, total % 256, total \div 256, count>> \o Concat(records)

\* A well-formed BOS holding the given records
WellFormedBos(records) ==
    BosBuffer(5, DESCRIPTOR_TYPE_BOS, 5 + Len(Concat(records)), Len(records), records)

\* The BOS answers a hub under construction is tried with
HubBosResponses ==
    LET c1 == [i \in 1..16 |-> 160 + i]
        cr == ContainerIdRecord(c1)
    IN  {TransportError, Received(<<>>), Received(<<5, DESCRIPTOR_TYPE_BOS, 4, 0>>),
         Received(WellFormedBos(<<>>)),
         Received(WellFormedBos(<<cr>>)),
         Received(WellFormedBos(<<Usb20ExtensionRecord, cr>>)),
         Received(WellFormedBos(<<Usb20ExtensionRecord, SuperSpeedRecord>>)),
         Received(BosBuffer(4, DESCRIPTOR_TYPE_BOS, 25, 1, <<cr>>)),
         Received(BosBuffer(5, DESCRIPTOR_TYPE_DEVICE_CAPABILITY, 25, 1, <<cr>>)),
         Received(BosBuffer(5, DESCRIPTOR_TYPE_BOS, 45, 1, <<cr>>)),
         Received(WellFormedBos(<<BadTypeRecord, cr>>)),
         Received(BosBuffer(5, DESCRIPTOR_TYPE_BOS, 12, 2, <<Usb20ExtensionRecord>>))}

PortArgs == {0, 1, 2, 3, 16, 255}

PortStatusResponses ==
    {TransportError, Received(<<>>), Received(<<1, 1>>)} \cup
    {Received(<<lo, hi, 0, 0>>) : lo \in {0, 1}, hi \in {0, 1, 2, 3, 129, 130}}

PowerResponses == {TransportError, Received(<<>>)}

(***************************************************************************)
(* The library as a state machine: a caller constructs a Hub and calls     *)
(* its methods.  A panic ends the program.                                 *)
(***************************************************************************)
NoCall == [op |-> "none", port |-> 0, on |-> FALSE]

IdleHub == hub = NoHub /\ call = NoCall /\ result = Ok(<<>>) /\ xfers = <<>>
\* a step not taken yet
Pending == [tag |-> "Pending", err |-> "", val |-> <<>>]

IdleBos == buf = <<>> /\ bos = Pending /\ cid = Pending
IdleLoc == location = <<>> /\ lockey = Pending
IdleCli ==
    /\ info_map = <<>> /\ args = [cmd |-> "none"] /\ pc = "none" /\ iter = 0
    /\ stack = <<>> /\ events = <<>> /\ listres = Pending /\ printed = FALSE /\ exit = 0

Running == result.tag # "Panic"

\* Hub::from_device_info is an associated function: it reads nothing of the
\* program's state, so one construction from the start covers them all
FromDeviceInfo ==
    /\ call = NoCall
    /\ \E class \in DeviceClasses, open_ok \in BOOLEAN, usb_version \in UsbVersions,
          hub_resp \in HubDescResponses, bos_resp \in HubBosResponses :
        /\ Len(hub_resp.data) <= hub_request_size(usb_version > USB_VERSION_3_0)
        /\ LET r == from_device_info(class, open_ok, usb_version, hub_resp, bos_resp)
           IN  /\ hub' = IF r.res.tag = "Ok" THEN r.res.val ELSE NoHub
               /\ call' = [op |-> "from_device_info", port |-> 0, on |-> FALSE]
               /\ result' = r.res
               /\ xfers' = r.xfers
    /\ UNCHANGED <<bosVars, locVars, cliVars>>

PortStatus ==
    /\ Running
    /\ hub.live
    /\ \E port \in PortArgs, resp \in PortStatusResponses :
        LET r == port_status(hub, port, resp)
        IN  /\ call' = [op |-> "port_status", port |-> port, on |-> FALSE]
            /\ result' = r.res
            /\ xfers' = r.xfers
    /\ UNCHANGED <<hub, bosVars, locVars, cliVars>>

SetPortPower ==
    /\ Running
    /\ hub.live
    /\ \E port \in PortArgs, on \in BOOLEAN, resp \in PowerResponses :
        LET r == set_port_power(hub, port, on, resp)
        IN  /\ call' = [op |-> "set_port_power", port |-> port, on |-> on]
            /\ result' = r.res
            /\ xfers' = r.xfers
    /\ UNCHANGED <<hub, bosVars, locVars, cliVars>>

Init == IdleHub /\ IdleBos /\ IdleLoc /\ IdleCli

Next == FromDeviceInfo \/ PortStatus \/ SetPortPower

Spec == Init /\ [][Next]_vars

(***************************************************************************)
(* BOS decoding on its own: a buffer arrives from the device, is decoded   *)
(* by get_bos_description (from_data), and container_id walks it.          *)
(***************************************************************************)
MaxCaps == 2

RECURSIVE SeqsUpTo(_, _)
SeqsUpTo(S, n) ==
    IF n = 0 THEN {<<>>}
    ELSE LET shorter == SeqsUpTo(S, n - 1)
         IN  shorter \cup {Append(q, x) : q \in {r \in shorter : Len(r) = n - 1}, x \in S}

BosHeaders == {<<5, DESCRIPTOR_TYPE_BOS>>, <<4, DESCRIPTOR_TYPE_BOS>>,
               <<5, DESCRIPTOR_TYPE_DEVICE_CAPABILITY>>}

BosBuffers ==
    {BosBuffer(h[1], h[2], 5 + Len(Concat(records)) + d, count, records) :
        h \in BosHeaders, d \in {0, 1}, count \in 0..(MaxCaps + 1),
        records \in SeqsUpTo(CapabilityRecords, MaxCaps)}
    \cup {<<>>, <<5, DESCRIPTOR_TYPE_BOS, 4, 0>>}
    \cup {WellFormedBos([i \in 1..13 |-> ContainerIdRecord([j \in 1..16 |-> 160 + j])])}

InitBos ==
    /\ buf \in BosBuffers
    /\ bos = Pending
    /\ cid = Pending
    /\ IdleHub /\ IdleLoc /\ IdleCli

GetBosDescription ==
    /\ bos = Pending
    /\ bos' = get_bos_description(Received(buf)).res
    /\ UNCHANGED <<buf, cid, hubVars, locVars, cliVars>>

ContainerId ==
    /\ bos.tag = "Ok"
    /\ cid = Pending
    /\ cid' = container_id(bos.val)
    /\ UNCHANGED <<buf, bos, hubVars, locVars, cliVars>>

NextBos == GetBosDescription \/ ContainerId

SpecBos == InitBos /\ [][NextBos]_vars

(***************************************************************************)
(* Location addressing (main, the Power command).  A string is a sequence  *)
(* of one-character strings.                                               *)
(***************************************************************************)
Digits == {"0", "1", "2", "3", "4", "5", "6", "7", "8", "9"}

DigitValue(c) ==
    CASE c = "0" -> 0 [] c = "1" -> 1 [] c = "2" -> 2 [] c = "3" -> 3 [] c = "4" -> 4
      [] c = "5" -> 5 [] c = "6" -> 6 [] c = "7" -> 7 [] c = "8" -> 8 [] OTHER -> 9

\* [[:digit:]]+
IsDigits(s) == Len(s) > 0 /\ \A i \in 1..Len(s) : s[i] \in Digits

\* str::split(sep): the pieces between the separators, empty ones kept
RECURSIVE Split(_, _)
Split(s, sep) ==
    IF \A i \in 1..Len(s) : s[i] # sep THEN <<s>>
    ELSE LET i == CHOOSE k \in 1..Len(s) : s[k] = sep /\ \A j \in 1..(k - 1) : s[j] # sep
         IN  <<SubSeq(s, 1, i - 1)>> \o Split(SubSeq(s, i + 1, Len(s)), sep)

\* location_regex.captures: ^(?<busnum>[[:digit:]]+)-(?<chain>(?:(?:[[:digit:]]+)[.])*(?:[[:digit:]]+))$
captures(s) ==
    LET dash == {k \in 1..Len(s) : s[k] = "-"}
        k == CHOOSE d \in dash : \A e \in dash : d <= e
        b == SubSeq(s, 1, k - 1)
        c == SubSeq(s, k + 1, Len(s))
        segs == Split(c, ".")
    IN  IF dash # {} /\ IsDigits(b) /\ \A i \in 1..Len(segs) : IsDigits(segs[i])
        THEN [matched |-> TRUE, busnum |-> b, chain |-> c]
        ELSE [matched |-> FALSE, busnum |-> <<>>, chain |-> <<>>]

\* the value of a digit string
RECURSIVE DecimalValue(_)
DecimalValue(s) ==
    IF s = <<>> THEN 0
    ELSE 10 * DecimalValue(SubSeq(s, 1, Len(s) - 1)) + DigitValue(s[Len(s)])

\* str::parse::<u8>: an optional +, then digits; empty, non-digit or
\* overflow is an error
parse_u8(s) ==
    LET d == IF s # <<>> /\ s[1] = "+" THEN Tail(s) ELSE s
    IN  IF ~IsDigits(d) THEN None
        ELSE IF DecimalValue(d) > 255 THEN None
        ELSE Some(DecimalValue(d))

\* filter_map(|v| v.parse::<u8>().ok()) over the segments
RECURSIVE filter_map_parse(_)
filter_map_parse(segs) ==
    IF segs = <<>> THEN <<>>
    ELSE LET v == parse_u8(Head(segs))
         IN  (IF v.some THEN <<v.id>> ELSE <<>>) \o filter_map_parse(Tail(segs))

\* main: the computation of `key` from the --location option (None or
\* Some(string)); Ok(None) is "no key", Panic the failed unwrap
location_key(loc) ==
    IF ~loc.some THEN Ok(None)
    ELSE
    LET m == captures(loc.id)
    IN  IF ~m.matched THEN Ok(None)
        ELSE LET busnum == parse_u8(m.busnum)
             IN  IF ~busnum.some THEN Panic
                 ELSE Ok(Some(<<busnum.id>> \o filter_map_parse(Split(m.chain, "."))))

MaxSegments == 3

LocationSegments ==
    {<<>>, <<"1">>, <<"2">>, <<"3">>, <<"0", "1">>, <<"2", "5", "5">>,
     <<"3", "0", "0">>, <<"x">>}

RECURSIVE Join(_, _)
Join(segs, sep) ==
    IF Len(segs) = 0 THEN <<>>
    ELSE IF Len(segs) = 1 THEN segs[1]
    ELSE segs[1] \o <<sep>> \o Join(Tail(segs), sep)

LocationStrings ==
    {b \o <<d>> \o Join(c, ".") :
        b \in LocationSegments, d \in {"-", "."},
        c \in SeqsUpTo(LocationSegments, MaxSegments) \ {<<>>}}

InitLoc ==
    /\ location \in {None} \cup {Some(t) : t \in LocationStrings}
    /\ lockey = Pending
    /\ IdleHub /\ IdleBos /\ IdleCli

ParseLocation ==
    /\ lockey = Pending
    /\ lockey' = location_key(location)
    /\ UNCHANGED <<location, hubVars, bosVars, cliVars>>

NextLoc == ParseLocation

SpecLoc == InitLoc /\ [][NextLoc]_vars

(***************************************************************************)
(* uhubctrl: main, list and describe_hub.                                  *)
(***************************************************************************)
MaxDepth == 2
MaxDevices == 2
TreePorts == {1, 2}

DeviceInfo(busnum, port_chain, class) ==
    [busnum |-> busnum, port_chain |-> port_chain, class |-> class]

\* main: let mut key = vec![bus_num]; key.extend(info.port_chain())
DeviceKey(info) == <<info.busnum>> \o info.port_chain

\* an order of the keys that puts a key after its extensions
RECURSIVE KeyLess_extension_first(_, _)
KeyLess_extension_first(a, b) ==
    IF b = <<>> THEN a # <<>>
    ELSE IF a = <<>> THEN FALSE
    ELSE IF a[1] # b[1] THEN a[1] < b[1]
    ELSE KeyLess_extension_first(Tail(a), Tail(b))

\* Ord of Vec<u8>: lexicographic, a proper prefix first
RECURSIVE KeyLess(_, _)
KeyLess(a, b) ==
    IF a = <<>> THEN b # <<>>
    ELSE IF b = <<>> THEN FALSE
    ELSE IF a[1] # b[1] THEN a[1] < b[1]
    ELSE KeyLess(Tail(a), Tail(b))

\* BTreeMap::iter: the keys in ascending order
RECURSIVE SortedKeys(_)
SortedKeys(S) ==
    IF S = {} THEN <<>>
    ELSE LET m == CHOOSE k \in S : \A j \in S \ {k} : KeyLess(k, j)
         IN  <<m>> \o SortedKeys(S \ {m})

\* main: the BTreeMap built from the enumerated devices
BuildInfoMap(devices) ==
    [k \in {DeviceKey(d) : d \in devices} |->
        CHOOSE d \in devices : DeviceKey(d) = k]

\* BTreeMap::get
MapGet(m, k) == IF k \in DOMAIN m THEN Some(m[k]) ELSE None

\* What nusb::list_devices can return: the root hub of bus 1 and up to
\* MaxDevices devices below it, each on a port of the root hub or of an
\* enumerated hub
RootHub == DeviceInfo(1, <<>>, DEVICE_CLASS_HUB)

Attachable(D) ==
    {DeviceInfo(h.busnum, Append(h.port_chain, p), c) :
        h \in {d \in D : d.class = DEVICE_CLASS_HUB /\ Len(d.port_chain) < MaxDepth},
        p \in TreePorts, c \in {8, DEVICE_CLASS_HUB}}

RECURSIVE DeviceSets(_)
DeviceSets(n) ==
    IF n = 0 THEN {{RootHub}}
    ELSE LET prev == DeviceSets(n - 1)
         IN  prev \cup
             UNION {{D \cup {d} :
                        d \in {a \in Attachable(D) :
                                  \A e \in D : DeviceKey(e) # DeviceKey(a)}} :
                    D \in prev}

CliLocations ==
    {None, Some(<<"1", "-", "1">>), Some(<<"1", "-", "1", ".", "1">>),
     Some(<<"1", "-", "3", "0", "0", ".", "1">>), Some(<<"3", "0", "0", "-", "1">>),
     Some(<<"1", "-">>)}

Commands ==
    {[cmd |-> "List"]} \cup
    {[cmd |-> "Power", port |-> p, on |-> o, location |-> l] :
        p \in {0, 1, 3}, o \in BOOLEAN, l \in CliLocations}

\* how the hubs met by uhubctrl answer: hub descriptor, BOS, port status
CliHubDescResponses(modes) ==
    {TransportError} \cup
    {Received(HubDescBytes(9, n, m, 0)) : n \in TreePorts, m \in modes}

CliBosResponses ==
    {TransportError,
     Received(BosBuffer(4, DESCRIPTOR_TYPE_BOS, 5, 0, <<>>))}

CliStatusResponses ==
    {TransportError, Received(<<0, 1, 0, 0>>), Received(<<1, 1, 0, 0>>)}

Event(tag, key, port) == [tag |-> tag, key |-> key, port |-> port]

\* the port entry written for a status that was read: port number, status
\* word in hexadecimal and the names of the bits that are set
PortLine(key, port, status) ==
    [tag |-> "port", key |-> key, port |-> port, status |-> status]

Frame(key, h, port) == [key |-> key, hub |-> h, port |-> port]

InitCli ==
    /\ info_map \in {BuildInfoMap(D) : D \in DeviceSets(MaxDevices)}
    /\ args \in Commands
    /\ pc = "main"
    /\ iter = 0
    /\ stack = <<>>
    /\ events = <<>>
    /\ listres = Pending
    /\ printed = FALSE
    /\ exit = 0
    /\ IdleHub /\ IdleBos /\ IdleLoc

\* main, Commands::Power: the key from the location, the lookup, the Hub
\* (unwrap), set_port_power; main returns normally unless it panicked
Power ==
    /\ pc = "main"
    /\ args.cmd = "Power"
    /\ \E open_ok \in BOOLEAN, hub_resp \in CliHubDescResponses({0, 1}),
          bos_resp \in CliBosResponses, resp \in PowerResponses :
        LET k == location_key(args.location)
            found == IF k.tag = "Ok" /\ k.val.some THEN MapGet(info_map, k.val.id) ELSE None
            r == IF found.some
                 THEN from_device_info(found.id.class, open_ok, 512, hub_resp, bos_resp)
                 ELSE [res |-> Pending, xfers |-> <<>>]
            sp == IF r.res.tag = "Ok"
                  THEN set_port_power(r.res.val, args.port, args.on, resp)
                  ELSE [res |-> Pending, xfers |-> <<>>]
        IN  /\ lockey' = k
            /\ hub' = IF r.res.tag = "Ok" THEN r.res.val ELSE NoHub
            /\ call' = IF r.res.tag = "Ok"
                       THEN [op |-> "set_port_power", port |-> args.port, on |-> args.on]
                       ELSE IF found.some
                       THEN [op |-> "from_device_info", port |-> 0, on |-> FALSE]
                       ELSE NoCall
            /\ result' = IF r.res.tag = "Ok" THEN sp.res
                         ELSE IF found.some THEN r.res ELSE result
            /\ xfers' = r.xfers \o sp.xfers
            /\ exit' = IF k.tag = "Panic" \/ (found.some /\ r.res.tag # "Ok")
                       THEN 101 ELSE 0
    /\ pc' = "exit"
    /\ UNCHANGED <<location, bosVars, info_map, args, iter, stack, events, listres, printed>>

\* main, the other commands: list(&info_map)
ListStart ==
    /\ pc = "main"
    /\ args.cmd = "List"
    /\ pc' = "list"
    /\ iter' = 1
    /\ UNCHANGED <<hubVars, bosVars, locVars, info_map, args, stack, events, listres,
                   printed, exit>>

\* describe_hub up to its port loop, called with `st` the calls already
\* active and `ev` the events so far: Hub::from_device_info, then the hub
\* line.  An Err is passed up by `?` through every active describe_hub and
\* list to main, which reports it and returns; a panic aborts.
EnterHub(key, st, ev, r) ==
    LET opened == Append(ev, Event("open", key, 0))
    IN  IF r.res.tag = "Ok"
        THEN /\ stack' = Append(st, Frame(key, r.res.val, 1))
             /\ events' = Append(opened, Event("hub", key, r.res.val.hub_descriptor.port_count))
             /\ UNCHANGED <<pc, listres, exit>>
        ELSE /\ stack' = <<>>
             /\ events' = Append(opened, Event(IF r.res.tag = "Err" THEN "open_err"
                                               ELSE "open_panic", key, 0))
             /\ pc' = "exit"
             /\ listres' = r.res
             /\ exit' = IF r.res.tag = "Err" THEN 0 ELSE 101

\* list starting describe_hub at every entry of the map, whatever its key
ListsFromAnyHub(key, info) == info.class = DEVICE_CLASS_HUB

\* list: the entries describe_hub is called for
ListsFrom(key, info) == Len(key) = 2 /\ info.class = DEVICE_CLASS_HUB

\* list: one turn of `for (key, info) in info_map.iter()`
ListNext ==
    /\ pc = "list"
    /\ stack = <<>>
    /\ iter <= Cardinality(DOMAIN info_map)
    /\ iter' = iter + 1
    /\ LET key == SortedKeys(DOMAIN info_map)[iter]
       IN  IF ListsFrom(key, info_map[key])
           THEN \E open_ok \in BOOLEAN, hub_resp \in CliHubDescResponses({1}),
                   bos_resp \in CliBosResponses :
                   EnterHub(key, stack, events,
                            from_device_info(info_map[key].class, open_ok, 512,
                                             hub_resp, bos_resp))
           ELSE UNCHANGED <<stack, events, pc, listres, exit>>
    /\ UNCHANGED <<hubVars, bosVars, locVars, info_map, args, printed>>

\* describe_hub: one turn of `for port in 1..=hub.port_count()`
PortStep ==
    /\ pc = "list"
    /\ stack # <<>>
    /\ LET top == stack[Len(stack)]
           port == top.port
           port_key == Append(top.key, port)
           st == [stack EXCEPT ![Len(stack)].port = port + 1]
       IN  /\ port <= top.hub.hub_descriptor.port_count
           /\ \E resp \in CliStatusResponses, open_ok \in BOOLEAN,
                 hub_resp \in CliHubDescResponses({1}), bos_resp \in CliBosResponses :
               LET s == port_status(top.hub, port, resp)
                   conn == IF s.res.tag = "Ok" THEN connection(s.res.val) ELSE TRUE
                   ev == events \o <<Event("status", top.key, port)>> \o
                         (IF s.res.tag = "Ok" THEN <<PortLine(top.key, port, s.res.val)>>
                          ELSE <<Event("status_err", top.key, port)>>)
                   child == IF conn THEN MapGet(info_map, port_key) ELSE None
               IN  IF child.some /\ child.id.class = DEVICE_CLASS_HUB
                   THEN EnterHub(port_key, st, ev,
                                 from_device_info(child.id.class, open_ok, 512,
                                                  hub_resp, bos_resp))
                   ELSE /\ stack' = st
                        /\ events' = IF child.some
                                     THEN ev \o <<Event("device", port_key, 0),
                                                  Event("newline", top.key, port)>>
                                     ELSE Append(ev, Event("newline", top.key, port))
                        /\ UNCHANGED <<pc, listres, exit>>
    /\ UNCHANGED <<hubVars, bosVars, locVars, info_map, args, iter, printed>>

\* describe_hub: the port loop is over, Ok(())
HubReturn ==
    /\ pc = "list"
    /\ stack # <<>>
    /\ stack[Len(stack)].port > stack[Len(stack)].hub.hub_descriptor.port_count
    /\ stack' = SubSeq(stack, 1, Len(stack) - 1)
    /\ UNCHANGED <<hubVars, bosVars, locVars, info_map, args, pc, iter, events, listres,
                   printed, exit>>

\* list: the iteration is over; print the buffer, Ok(()); main returns
ListDone ==
    /\ pc = "list"
    /\ stack = <<>>
    /\ iter > Cardinality(DOMAIN info_map)
    /\ printed' = TRUE
    /\ listres' = Ok(<<>>)
    /\ pc' = "exit"
    /\ exit' = 0
    /\ UNCHANGED <<hubVars, bosVars, locVars, info_map, args, iter, stack, events>>

NextCli == Power \/ ListStart \/ ListNext \/ PortStep \/ HubReturn \/ ListDone

SpecCli == InitCli /\ [][NextCli]_vars

\* list runs in one sequential thread and every transfer it waits for is
\* made with a timeout, so once list is called its next step is taken
ListStep == ListNext \/ PortStep \/ HubReturn \/ ListDone

FairSpecCli == SpecCli /\ WF_vars(ListStep)

(***************************************************************************)
(* Properties of the Hub library (checked under Spec).                     *)
(***************************************************************************)
\* bit k of word w
Bit(w, k) == (w \div (2 ^ k)) % 2

\* the port status word the device returned to the last port_status call
RawStatus == u16_from_le_bytes(xfers[1].resp.data[1], xfers[1].resp.data[2])

\* C1: set_port_power on a hub whose power switching mode (characteristics
\* & 3) is not IndividualPort (1) fails with InvalidPort, whatever the port
\* and `on`, and issues no transfer.
C1_NotIndividualRejected ==
    (call.op = "set_port_power" /\ hub.hub_descriptor.characteristics % 4 # 1)
        => (result = Err("InvalidPort") /\ xfers = <<>>)

C1_Witness ==
    /\ call.op = "set_port_power"
    /\ hub.hub_descriptor.characteristics % 4 = 0
    /\ call.port >= 1 /\ call.port <= hub.hub_descriptor.port_count
    /\ call.on
    /\ result = Err("InvalidPort")

\* C2: port_status and set_port_power accept a port only when
\* 1 <= port <= port_count; any other port fails with InvalidPort and no
\* transfer is issued.
C2_PortRangeChecked ==
    (/\ call.op \in {"port_status", "set_port_power"}
     /\ ~(1 <= call.port /\ call.port <= hub.hub_descriptor.port_count))
        => (result = Err("InvalidPort") /\ xfers = <<>>)

\* C3: powered() of the status returned by port_status is bit 9 of the raw
\* word on a SuperSpeed hub and bit 8 of it otherwise.
C3_PoweredBit ==
    (call.op = "port_status" /\ result.tag = "Ok")
        => (powered(result.val) =
                (Bit(RawStatus, IF hub.super_speed THEN 9 ELSE 8) = 1))

\* C6: once the device is open and its hub descriptor read (the BOS read
\* was reached, the second transfer), from_device_info returns a live Hub;
\* its container_id is None when the BOS read failed or was too short.
C6_BosFailureTolerated ==
    (call.op = "from_device_info" /\ Len(xfers) = 2)
        => /\ result.tag = "Ok"
           /\ (~xfers[2].resp.ok \/ Len(xfers[2].resp.data) < 5)
                 => ~result.val.container_id.some

\* C7: the hub descriptor read asks for 9 bytes of type 0x29 or 12 bytes of
\* type 0x2A; an answer of another length fails with InvalidRespone;
\* otherwise port_count is byte 2 if <= 15 else 0, characteristics is
\* bytes 3-4 little-endian, and the mode is decided by characteristics & 3.
C7_HubDescriptorDecode ==
    (call.op = "from_device_info" /\ Len(xfers) >= 1)
        => LET x == xfers[1]
               d == x.resp.data
           IN  /\ <<x.ctl.len, x.ctl.value>> \in {<<9, 41 * 256>>, <<12, 42 * 256>>}
               /\ (x.resp.ok /\ Len(d) # x.ctl.len)
                     => (result = Err("InvalidRespone") /\ Len(xfers) = 1)
               /\ (x.resp.ok /\ Len(d) = x.ctl.len) => Len(xfers) = 2
               /\ result.tag = "Ok" =>
                     LET hd == result.val.hub_descriptor
                     IN  /\ x.ctl.len = IF result.val.super_speed THEN 12 ELSE 9
                         /\ hd.port_count = IF d[3] <= 15 THEN d[3] ELSE 0
                         /\ hd.characteristics = d[4] + 256 * d[5]
                         /\ logical_power_switching_mode(hd) =
                              CASE hd.characteristics % 4 = 0 -> "Common"
                                [] hd.characteristics % 4 = 1 -> "IndividualPort"
                                [] OTHER -> "None"

C7_Witness ==
    /\ call.op = "from_device_info"
    /\ result.tag = "Ok"
    /\ xfers[1].ctl.len = 12
    /\ xfers[1].resp.data[3] = 255
    /\ hub.hub_descriptor.port_count = 0
    /\ hub.hub_descriptor.characteristics = 169 + 256
    /\ logical_power_switching_mode(hub.hub_descriptor) = "IndividualPort"

(***************************************************************************)
(* Properties of BOS decoding (checked under SpecBos).                     *)
(***************************************************************************)
\* the BOS header is valid: 5 bytes or more, byte 0 = 5, byte 1 = 0x0F,
\* total_length = the length of the buffer
HeaderValid(b) ==
    /\ Len(b) >= 5
    /\ b[1] = 5
    /\ b[2] = 15
    /\ b[3] + 256 * b[4] = Len(b)

\* the records after the header are exactly `n` whole capability records
RECURSIVE WholeRecords(_, _)
WholeRecords(part, n) ==
    IF n = 0 THEN part = <<>>
    ELSE /\ Len(part) >= 3
         /\ part[1] >= 3 /\ part[1] <= Len(part)
         /\ part[2] = 16
         /\ WholeRecords(SubSeq(part, part[1] + 1, Len(part)), n - 1)

WellFormed(b) == HeaderValid(b) /\ WholeRecords(SubSeq(b, 6, Len(b)), b[5])

\* the payload of the first Container ID record of a well-formed record
\* list: the 16 bytes after its 3 byte header; <<>> when there is none
RECURSIVE FirstContainerPayload(_)
FirstContainerPayload(part) ==
    IF part = <<>> THEN <<>>
    ELSE IF part[3] = 4 /\ part[1] = 20 THEN SubSeq(part, 4, 19)
    ELSE FirstContainerPayload(SubSeq(part, part[1] + 1, Len(part)))

\* C4: decoding a well-formed BOS whose first Container ID record carries
\* c returns exactly c.
C4_ContainerIdRoundTrip ==
    (/\ cid # Pending
     /\ WellFormed(buf)
     /\ FirstContainerPayload(SubSeq(buf, 6, Len(buf))) # <<>>)
        => cid = Ok(Some(FirstContainerPayload(SubSeq(buf, 6, Len(buf)))))

\* C5: decoding a buffer whose header is invalid ends in a returned error,
\* not in an abort.
C5_InvalidHeaderIsError ==
    (bos # Pending /\ ~HeaderValid(buf)) => bos.tag = "Err"

(***************************************************************************)
(* Properties of location parsing (checked under SpecLoc).                 *)
(***************************************************************************)
\* the values of the segments
DecimalValues(segs) == [i \in 1..Len(segs) |-> DecimalValue(segs[i])]

\* C8: a location <busnum>-<port>[.<port>]* whose numbers all fit in a byte
\* gives the key [busnum, port_1, ..., port_n]; any other string gives no
\* key (and neither a shortened key nor an abort).
C8_LocationKey ==
    lockey # Pending =>
        LET m == IF location.some THEN captures(location.id) ELSE captures(<<>>)
            nums == DecimalValues(<<m.busnum>> \o Split(m.chain, "."))
        IN  IF m.matched /\ \A i \in 1..Len(nums) : nums[i] <= 255
            THEN lockey = Ok(Some(nums))
            ELSE lockey = Ok(None)


(***************************************************************************)
(* Properties of uhubctrl (checked under SpecCli).                         *)
(***************************************************************************)

\* some Hub::from_device_info called while listing returned an Err
OpenFailed == \E i \in 1..Len(events) : events[i].tag = "open_err"

\* no step of the listing panicked
NoPanic == \A i \in 1..Len(events) : events[i].tag # "open_panic"

\* C9: an error met while resolving one port of the tree (its status query
\* failing, or the hub attached to it failing to open or decode) is handled
\* locally: once the list command is over, and nothing panicked, list has
\* returned Ok(()), the rendered tree has been printed, and every port of
\* every hub that was opened has been queried.
C9_ListErrorsHandledLocally ==
    (pc = "exit" /\ args.cmd = "List" /\ NoPanic) =>
        /\ listres.tag = "Ok"
        /\ printed
        /\ \A i \in 1..Len(events) :
              events[i].tag = "hub" =>
                  \A p \in 1..events[i].port :
                      \E j \in 1..Len(events) :
                          events[j] = Event("status", events[i].key, p)

\* the operation requested on the command line ended in a returned error
OperationFailed ==
    \/ args.cmd = "List" /\ listres.tag = "Err"
    \/ args.cmd = "Power" /\ call.op = "set_port_power" /\ result.tag = "Err"

\* C10: when the power-set command or the tree-print command ends in a
\* transport or decode failure (set_port_power or list returned an error),
\* the exit status of the process is not zero.
C10_ExitStatusReportsFailure ==
    (pc = "exit" /\ OperationFailed) => exit # 0

\* the positions of the port entries written for hub k
PortEntries(k) == {j \in 1..Len(events) : events[j].tag = "port" /\ events[j].key = k}

\* what follows the port entry at position j: the description of the device
\* on the port, the rendering of the hub on the port, or the end of the line
EntryContinuation(j) ==
    LET e == events[j]
        port_key == Append(e.key, e.port)
        reports_connection == e.status % 2 = 1
        present == port_key \in DOMAIN info_map
    IN  /\ j < Len(events)
        /\ IF reports_connection /\ present /\ info_map[port_key].class # 9
           THEN events[j + 1] = Event("device", port_key, 0)
           ELSE IF reports_connection /\ present
           THEN events[j + 1] = Event("open", port_key, 0)
           ELSE events[j + 1] = Event("newline", e.key, e.port)

\* the rendering of the hub whose hub line is at position i: one hub line,
\* then the entries of ports 1..n in ascending order, each continued as
\* its status and the device map say
HubRendered(i) ==
    LET k == events[i].key
        n == events[i].port
    IN  /\ \A j \in 1..Len(events) :
              (events[j].tag = "hub" /\ events[j].key = k) => j = i
        /\ {events[j].port : j \in PortEntries(k)} = 1..n
        /\ \A j \in PortEntries(k) :
              /\ j > i
              /\ \A l \in PortEntries(k) : (j < l) <=> (events[j].port < events[l].port)
              /\ EntryContinuation(j)

\* C11: rendering a hub with n ports whose status queries all succeed
\* emits one hub line followed by exactly n port entries in ascending order
\* 1..n; an entry continues to a device line exactly when the port reports
\* connection and the port's key is in the map with a non-hub class, into a
\* nested hub rendering exactly when the key is there with the hub class,
\* and is otherwise just the port's line.
C11_HubRendering ==
    (pc = "exit" /\ args.cmd = "List") =>
        \A i \in 1..Len(events) :
            (/\ events[i].tag = "hub"
             /\ \A j \in 1..Len(events) :
                   ~(events[j].tag = "status_err" /\ events[j].key = events[i].key))
                => HubRendered(i)

\* a is before b lexicographically: at the first position where they
\* differ a has the smaller element, or a ends there (a proper prefix)
LexBefore(a, b) ==
    \E i \in 1..Len(b) :
        /\ i - 1 <= Len(a)
        /\ \A j \in 1..(i - 1) : a[j] = b[j]
        /\ \/ i = Len(a) + 1
           \/ i <= Len(a) /\ a[i] < b[i]

\* a is an ancestor of b in the tree: a proper prefix of b
ProperPrefix(a, b) == Len(a) < Len(b) /\ SubSeq(b, 1, Len(a)) = a

\* the keys list has already gone past
Visited == {SortedKeys(DOMAIN info_map)[i] : i \in 1..(iter - 1)}

\* C12: the keys of the device map are ordered lexicographically, a proper
\* prefix before its extensions, so [1,2] < [1,2,1] < [1,3]; iterating the
\* map in key order visits the parent hub of every device (its key without
\* the last element), and every ancestor, strictly before the device.
C12_KeyOrder ==
    LET order == SortedKeys(DOMAIN info_map)
    IN  /\ KeyLess(<<1, 2>>, <<1, 2, 1>>) /\ KeyLess(<<1, 2, 1>>, <<1, 3>>)
        /\ KeyLess(<<1, 2>>, <<1, 3>>) /\ ~KeyLess(<<1, 3>>, <<1, 2, 1>>)
        /\ \A i, j \in 1..Len(order) : (i < j) <=> LexBefore(order[i], order[j])
        /\ \A i, j \in 1..Len(order) : ProperPrefix(order[i], order[j]) => i < j
        /\ pc = "list" =>
              \A k \in Visited :
                  \A a \in DOMAIN info_map : ProperPrefix(a, k) => a \in Visited
        /\ \A i, j \in 1..Len(events) :
              (/\ i < j
               /\ events[i].tag = "open" /\ Len(events[i].key) = 2
               /\ events[j].tag = "open" /\ Len(events[j].key) = 2)
                  => LexBefore(events[i].key, events[j].key)

C12_Witness ==
    /\ pc = "list"
    /\ DOMAIN info_map = {<<1>>, <<1, 2>>, <<1, 2, 1>>}
    /\ Visited = {<<1>>, <<1, 2>>}
    /\ stack = <<>>

(***************************************************************************)
(* Switching the power of a port (checked under Spec).                     *)
(***************************************************************************)
\* the last call was set_port_power(port, on) on an IndividualPort hub
\* with 1 <= port <= port_count
PowerCallInRange ==
    /\ call.op = "set_port_power"
    /\ hub.hub_descriptor.characteristics % 4 = 1
    /\ 1 <= call.port /\ call.port <= hub.hub_descriptor.port_count

\* C13: set_port_power(port, on) on an IndividualPort hub with
\* 1 <= port <= port_count issues exactly one control OUT transfer: type
\* Class, recipient Other, request SET_FEATURE (3) when on and
\* CLEAR_FEATURE (1) when off, value 8, index port, no payload.  It
\* succeeds iff that transfer succeeds; when the transfer fails it returns
\* the transport error and issues no second transfer.
C13_PowerTransfer ==
    PowerCallInRange =>
        /\ Len(xfers) = 1
        /\ xfers[1].ctl = [dir |-> "out", control_type |-> "Class",
                           recipient |-> "Other",
                           request |-> IF call.on THEN 3 ELSE 1,
                           value |-> 8, index |-> call.port, len |-> 0]
        /\ (result.tag = "Ok") <=> xfers[1].resp.ok
        /\ ~xfers[1].resp.ok => result = Err("UsbTransferError")

C13_Witness ==
    /\ PowerCallInRange
    /\ ~call.on
    /\ call.port = 2
    /\ xfers[1].ctl.request = 1
    /\ ~xfers[1].resp.ok
    /\ result = Err("UsbTransferError")

(***************************************************************************)
(* The capability walk of container_id (checked under SpecBos).            *)
(***************************************************************************)
\* C14: for every header-valid BOS buffer the walk of container_id examines
\* the records in order and returns the first Container ID record or none;
\* it never faults, also when num_device_caps is larger than the number of
\* records present, when a record has length 0, or when a record's length
\* runs past the end of the buffer.
C14_WalkNeverFaults ==
    (cid # Pending /\ HeaderValid(buf)) =>
        /\ cid.tag = "Ok"
        /\ WellFormed(buf) =>
              (cid.val.some <=> FirstContainerPayload(SubSeq(buf, 6, Len(buf))) # <<>>)

(***************************************************************************)
(* The order of one render pass (checked under FairSpecCli).               *)
(***************************************************************************)
\* describe_hub is entered only for hub entries of the map: from list for a
\* key of length 2, otherwise from the entry of the port the hub is on
StartsFromTopLevelHubs ==
    \A i \in 1..Len(events) :
        events[i].tag = "open" =>
            LET k == events[i].key
            IN  /\ k \in DOMAIN info_map
                /\ info_map[k].class = 9
                /\ Len(k) >= 2
                /\ Len(k) > 2 =>
                      /\ i > 1
                      /\ events[i - 1].tag \in {"port", "status_err"}
                      /\ Append(events[i - 1].key, events[i - 1].port) = k

\* no hub is opened twice
OpensEachHubOnce ==
    \A i, j \in 1..Len(events) :
        (events[i].tag = "open" /\ events[j].tag = "open"
            /\ events[i].key = events[j].key) => i = j

\* whatever is rendered below port q of hub k comes after the status
\* queries of the ports 1..q of k and before those of the ports after q
DepthFirstPreOrder ==
    \A i, j \in 1..Len(events) :
        (events[i].tag = "status" /\ ProperPrefix(events[i].key, events[j].key)) =>
            ((i < j) <=> (events[i].port <= events[j].key[Len(events[i].key) + 1]))

\* the active describe_hub calls are a path of the tree: each was entered
\* from the port its caller queried last
ActiveCallsArePath ==
    /\ stack # <<>> => Len(stack[1].key) = 2
    /\ \A d \in 2..Len(stack) :
          stack[d].key = Append(stack[d - 1].key, stack[d - 1].port - 1)

\* C15: one render pass starts only from the entries whose key has length 2
\* and whose class is the hub class, proceeds depth-first in pre-order (the
\* whole subtree of a child hub is rendered before the next sibling port of
\* its parent is queried), opens each hub at most once, and terminates.
C15_RenderPass ==
    /\ [](/\ StartsFromTopLevelHubs
          /\ OpensEachHubOnce
          /\ DepthFirstPreOrder
          /\ ActiveCallsArePath)
    /\ (pc = "list") ~> (pc = "exit")

C15_Witness ==
    /\ pc = "exit"
    /\ printed
    /\ DOMAIN info_map = {<<1>>, <<1, 1>>, <<1, 1, 1>>}
    /\ \E i, j, l \in 1..Len(events) :
          /\ i < j /\ j < l
          /\ events[i] = Event("status", <<1, 1>>, 1)
          /\ events[j] = Event("hub", <<1, 1, 1>>, 2)
          /\ events[l] = Event("status", <<1, 1>>, 2)

====
